---- MODULE Spec2Model ----
(***************************************************************************)
(* Model of the model loader of HBVIZ/wrapup (modelLoader.js): the module  *)
(* level scene/camera/controls references, loadModel with the success and  *)
(* error callbacks it hands to the GLTF decoder, and loadModels.           *)
(*                                                                         *)
(* Conventions.  Vectors are triples of integers.  An Euler rotation is a  *)
(* record [v, order].  The decoded nodes below the root carry offsets and  *)
(* turns about the Y axis only, and every rotation of the model is about   *)
(* Y, so that a world position is the root position plus the scaled sum of *)
(* the offsets and a world orientation is the sum of the turns.            *)
(***************************************************************************)
EXTENDS Integers, Sequences, FiniteSets, TLC

VARIABLES
    sceneRef,      \* module variable sceneRef: NULL or a scene
    cameraRef,     \* module variable cameraRef: NULL or a camera
    controlsRef,   \* module variable controlsRef: NULL or a controls object
    children,      \* scene |-> sequence of attached models (a model is named by its load)
    cams,          \* camera |-> its pose, intrinsics and projection
    ctlUpdates,    \* controls |-> whether the loader has called update() on it
    window,        \* [w, h]: window.innerWidth, window.innerHeight
    loads,         \* sequence of the loadModel calls made so far
    batches        \* sequence of the loadModels calls made so far

vars == <<sceneRef, cameraRef, controlsRef, children, cams, ctlUpdates, window, loads, batches>>

-----------------------------------------------------------------------------
(* Bounds *)

MaxLoads == 2        \* loadModel calls in one behaviour (loadModels included)

-----------------------------------------------------------------------------
(* Values *)

NULL == "null"
Scenes == {"S1", "S2"}
Cams == {"K1", "K2"}
Controls == {"O1"}

Origin == <<0, 0, 0>>
UnitScale == <<1, 1, 1>>
IdentityRotation == [v |-> <<0, 0, 0>>, order |-> "XYZ"]

SetToSeqIdx(n) == [k \in 1..n |-> k]
Range(s) == {s[k] : k \in 1..Len(s)}

RECURSIVE Gcd(_, _)
Gcd(a, b) == IF b = 0 THEN a ELSE Gcd(b, a % b)

\* window.innerWidth / window.innerHeight, kept as a reduced fraction
Aspect(win) == <<win.w \div Gcd(win.w, win.h), win.h \div Gcd(win.w, win.h)>>


-----------------------------------------------------------------------------
(* Node names are sequences of characters, so that toLowerCase and         *)
(* includes are computed and not looked up.                                *)

NmCamera     == <<"C", "a", "m", "e", "r", "a">>
NmMainCamera == <<"M", "a", "i", "n", " ", "C", "a", "m", "e", "r", "a">>
NmLcCamera   == <<"c", "a", "m", "e", "r", "a">>
NmMainCam    == <<"M", "a", "i", "n", "C", "a", "m", "e", "r", "a">>
NmUcCamera   == <<"C", "A", "M", "E", "R", "A">>
NmShotCamera == <<"S", "h", "o", "t", "C", "a", "m", "e", "r", "a">>
NmRig        == <<"R", "i", "g">>
NmCube       == <<"C", "u", "b", "e">>
NmScene      == <<"S", "c", "e", "n", "e">>
NmNone       == <<>>

LowerChar(c) ==
    CASE c = "A" -> "a" [] c = "C" -> "c" [] c = "E" -> "e" [] c = "M" -> "m"
      [] c = "R" -> "r" [] c = "S" -> "s" [] OTHER -> c

\* String.prototype.toLowerCase
ToLowerCase(s) == [k \in 1..Len(s) |-> LowerChar(s[k])]

\* String.prototype.includes
Includes(s, t) ==
    \E k \in 0..(Len(s) - Len(t)) : SubSeq(s, k + 1, k + Len(t)) = t

-----------------------------------------------------------------------------
(* Decoded assets: what the GLTF decoder hands to the success callback.    *)
(* nodes[1] is gltf.scene; a node's children are the later nodes naming it *)
(* as parent, in index order.  cameras and animations are either           *)
(* undefined or a list.                                                    *)

Node(kind, name, parent, off, ry, fov, near, far) ==
    [kind |-> kind, name |-> name, parent |-> parent, off |-> off, ry |-> ry,
     fov |-> fov, near |-> near, far |-> far]

Grp(name, parent, off, ry) == Node("group", name, parent, off, ry, 0, 0, 0)
Msh(name, parent, off)     == Node("mesh", name, parent, off, 0, 0, 0, 0)
Persp(name, parent, off, fov, near, far) == Node("persp", name, parent, off, 0, fov, near, far)
Ortho(name, parent, off)   == Node("ortho", name, parent, off, 0, 0, 1, 50)

Undefined == [t |-> "undefined", l |-> <<>>]
List(l)   == [t |-> "list", l |-> l]

CamDef(kind, fov, near, far) == [kind |-> kind, fov |-> fov, near |-> near, far |-> far]

Assets == <<
    \* 1: meshes at depth 1 and 2 under groups, no camera, one animation
    [nodes |-> << Grp(NmScene, 0, Origin, 0), Grp(NmRig, 1, <<0, 1, 0>>, 0),
                  Msh(NmCube, 2, <<0, 1, 0>>), Msh(NmNone, 3, Origin) >>,
     cameras |-> List(<<>>), animations |-> List(<<"walk">>)],
    \* 2: one perspective camera attached as the child of the named node Rig
    [nodes |-> << Grp(NmScene, 0, Origin, 0), Msh(NmCube, 1, Origin),
                  Grp(NmRig, 1, <<0, 3, 0>>, 1), Persp(NmNone, 3, <<0, 1, 0>>, 35, 2, 200) >>,
     cameras |-> List(<< CamDef("persp", 35, 2, 200) >>), animations |-> Undefined],
    \* 3: one orthographic camera attached as the child of the named node Rig
    [nodes |-> << Grp(NmScene, 0, Origin, 0), Grp(NmRig, 1, <<0, 3, 0>>, 1),
                  Ortho(NmNone, 2, <<0, 1, 0>>), Msh(NmCube, 1, Origin) >>,
     cameras |-> List(<< CamDef("ortho", 0, 1, 50) >>), animations |-> List(<<>>)],
    \* 4: a camera is declared but no node of the hierarchy is or names one
    [nodes |-> << Grp(NmScene, 0, Origin, 0), Msh(NmCube, 1, <<0, 1, 0>>) >>,
     cameras |-> List(<< CamDef("persp", 60, 3, 300), CamDef("ortho", 0, 1, 50) >>),
     animations |-> List(<<"spin", "walk">>)],
    \* 5: the decoder exposes neither cameras nor animations
    [nodes |-> << Grp(NmScene, 0, Origin, 0), Msh(NmCube, 1, Origin) >>,
     cameras |-> Undefined, animations |-> Undefined],
    \* 6: no camera node; a node named CAMERA below the group Rig
    [nodes |-> << Grp(NmScene, 0, Origin, 0), Grp(NmRig, 1, <<0, 2, 0>>, 0),
                  Grp(NmUcCamera, 2, <<0, 5, 0>>, 1), Msh(NmCube, 1, Origin) >>,
     cameras |-> List(<< CamDef("persp", 40, 4, 400) >>), animations |-> List(<<>>)],
    \* 7: no camera node; a child of the root named ShotCamera, and a node
    \*    named Camera below the group Rig
    [nodes |-> << Grp(NmScene, 0, Origin, 0), Grp(NmShotCamera, 1, <<0, 1, 0>>, 0),
                  Grp(NmRig, 1, <<0, 2, 0>>, 0), Grp(NmCamera, 3, <<0, 6, 0>>, 0) >>,
     cameras |-> List(<< CamDef("ortho", 0, 1, 50) >>), animations |-> List(<<>>)],
    \* 8: no camera node; a child of the root named ShotCamera after a mesh
    [nodes |-> << Grp(NmScene, 0, Origin, 0), Msh(NmCube, 1, Origin),
                  Grp(NmShotCamera, 1, <<0, 7, 0>>, 0) >>,
     cameras |-> List(<< CamDef("persp", 45, 5, 500) >>), animations |-> List(<<>>)],
    \* 9: a group named Camera, an orthographic camera below the group Rig,
    \*    and a perspective camera that is a child of the root
    [nodes |-> << Grp(NmScene, 0, Origin, 0), Grp(NmCamera, 1, <<0, 8, 0>>, 0),
                  Grp(NmRig, 1, <<0, 2, 0>>, 0), Ortho(NmNone, 3, <<0, 1, 0>>),
                  Persp(NmNone, 1, <<0, 9, 0>>, 80, 6, 600) >>,
     cameras |-> List(<< CamDef("ortho", 0, 1, 50), CamDef("persp", 80, 6, 600) >>),
     animations |-> List(<<>>)]
>>

\* The transform the decoder leaves on gltf.scene
RootTransform(p, s, r) == [position |-> p, scale |-> s, rotation |-> r]

DecodedRoots == {
    RootTransform(Origin, UnitScale, IdentityRotation),
    RootTransform(<<0, 4, 0>>, <<3, 3, 3>>, [v |-> <<0, 1, 0>>, order |-> "YXZ"]) }

IsCamera(n) == n.kind \in {"persp", "ortho"}
IsPerspectiveCamera(n) == n.kind = "persp"
IsMesh(n) == n.kind = "mesh"

\* Object3D.children of node i
ChildrenOf(nodes, i) == SelectSeq(SetToSeqIdx(Len(nodes)), LAMBDA j : nodes[j].parent = i)

RECURSIVE TraverseFrom(_, _), TraverseAll(_, _)
\* Object3D.traverse: the node, then each child's subtree, in order
TraverseFrom(nodes, i) == <<i>> \o TraverseAll(nodes, ChildrenOf(nodes, i))
TraverseAll(nodes, kids) ==
    IF kids = <<>> THEN <<>>
    ELSE TraverseFrom(nodes, Head(kids)) \o TraverseAll(nodes, Tail(kids))

-----------------------------------------------------------------------------
(* Options of loadModel.  A field is omitted, or carries one of the forms  *)
(* the JSDoc lists: an array, a Vector3 / Euler object, or (scale only) a  *)
(* number.                                                                 *)

Omitted == [t |-> "omitted"]
Arr(v) == [t |-> "array", a |-> v]
Vector3(v) == [t |-> "vector3", x |-> v[1], y |-> v[2], z |-> v[3]]
Num(n) == [t |-> "number", n |-> n]
Euler(v, order) == [t |-> "euler", x |-> v[1], y |-> v[2], z |-> v[3], order |-> order]

Flags == {"omitted", "true", "false"}

PositionOpts == {Omitted, Arr(<<1, 2, 3>>), Arr(<<0, 0, 0>>), Vector3(<<3, 1, 2>>)}
ScaleOpts == {Omitted, Num(0), Num(2), Arr(<<1, 2, 3>>), Vector3(<<2, 1, 2>>)}
RotationOpts == {Omitted, Arr(<<0, 2, 0>>), Arr(<<0, 0, 0>>), Euler(<<0, 1, 0>>, "ZYX")}

Options(p, s, r, sh, uc) ==
    [position |-> p, scale |-> s, rotation |-> r, shadows |-> sh, useCamera |-> uc]

AllOptions == {Options(p, s, r, sh, uc) :
                  p \in PositionOpts, s \in ScaleOpts, r \in RotationOpts,
                  sh \in Flags, uc \in Flags}

\* options = {}
DefaultOptions == Options(Omitted, Omitted, Omitted, "omitted", "omitted")

\* as ApplyPosition, but an omitted position resets the root to the origin
ApplyPositionDefaulting(position, opt) ==
    IF opt.t = "omitted" THEN Origin
    ELSE IF opt.t = "array" THEN <<opt.a[1], opt.a[2], opt.a[3]>>
    ELSE <<opt.x, opt.y, opt.z>>

\* if (options.position) { ... set(...options.position) | copy(options.position) }
ApplyPosition(position, opt) ==
    IF opt.t = "omitted" THEN position
    ELSE IF opt.t = "array" THEN <<opt.a[1], opt.a[2], opt.a[3]>>
    ELSE <<opt.x, opt.y, opt.z>>

\* as ApplyScale, but guarded by if (options.scale): the number 0 is skipped
ApplyScaleTruthy(scale, opt) ==
    IF opt.t = "omitted" \/ (opt.t = "number" /\ opt.n = 0) THEN scale
    ELSE IF opt.t = "number" THEN <<opt.n, opt.n, opt.n>>
    ELSE IF opt.t = "array" THEN <<opt.a[1], opt.a[2], opt.a[3]>>
    ELSE <<opt.x, opt.y, opt.z>>

\* if (options.scale !== undefined) { setScalar | set(...) | copy }
ApplyScale(scale, opt) ==
    IF opt.t = "omitted" THEN scale
    ELSE IF opt.t = "number" THEN <<opt.n, opt.n, opt.n>>
    ELSE IF opt.t = "array" THEN <<opt.a[1], opt.a[2], opt.a[3]>>
    ELSE <<opt.x, opt.y, opt.z>>

\* if (options.rotation) { set(...) keeps the Euler order | copy takes the order too }
ApplyRotation(rotation, opt) ==
    IF opt.t = "omitted" THEN rotation
    ELSE IF opt.t = "array"
         THEN [v |-> <<opt.a[1], opt.a[2], opt.a[3]>>, order |-> rotation.order]
    ELSE [v |-> <<opt.x, opt.y, opt.z>>, order |-> opt.order]

\* as EnableShadows, but opt-in: options.shadows === true
EnableShadowsOptIn(options) == options.shadows = "true"

\* const enableShadows = options.shadows !== false
EnableShadows(options) == options.shadows # "false"

\* model.traverse(child => { if (child.isMesh) { castShadow = receiveShadow = true } })
ShadowFlags(nodes, enable) ==
    [k \in 1..Len(nodes) |->
        enable /\ k \in Range(TraverseFrom(nodes, 1)) /\ IsMesh(nodes[k])]

\* The decoded hierarchy of a load once lines 46-86 have run, with the root
\* transform it was decoded with.  A decoded node starts with castShadow =
\* receiveShadow = false (the Object3D defaults).
NoModel == [a |-> 0, decoded |-> RootTransform(Origin, UnitScale, IdentityRotation),
            root |-> RootTransform(Origin, UnitScale, IdentityRotation),
            castShadow |-> <<>>, receiveShadow |-> <<>>]

PlaceModel(a, root, options) ==
    [a |-> a,
     decoded |-> root,
     root |-> RootTransform(ApplyPosition(root.position, options.position),
                            ApplyScale(root.scale, options.scale),
                            ApplyRotation(root.rotation, options.rotation)),
     castShadow |-> ShadowFlags(Assets[a].nodes, EnableShadows(options)),
     receiveShadow |-> ShadowFlags(Assets[a].nodes, EnableShadows(options))]

-----------------------------------------------------------------------------
(* Camera derivation, lines 95-197 *)

\* const cameras = gltf.cameras || [] ; animations: gltf.animations || []
OrEmpty(x) == IF x.t = "undefined" THEN <<>> ELSE x.l

RECURSIVE CollectChildren(_, _, _, _)
\* node.children.forEach(child => { if (child.isCamera && !cameraObjects.includes(child)) ... })
CollectChildren(nodes, n, kids, acc) ==
    IF kids = <<>> THEN acc
    ELSE LET c == Head(kids)
             next == IF IsCamera(nodes[c]) /\ c \notin Range(acc.cameraObjects)
                     THEN [cameraObjects |-> Append(acc.cameraObjects, c),
                           cameraNodes |-> Append(acc.cameraNodes, n)]
                     ELSE acc
         IN  CollectChildren(nodes, n, Tail(kids), next)

RECURSIVE CollectNodes(_, _, _)
\* the callback of model.traverse at lines 106-122, over the traversal order
CollectNodes(nodes, order, acc) ==
    IF order = <<>> THEN acc
    ELSE LET n == Head(order)
             self == IF IsCamera(nodes[n])
                     THEN [cameraObjects |-> Append(acc.cameraObjects, n),
                           cameraNodes |-> Append(acc.cameraNodes, n)]
                     ELSE acc
         IN  CollectNodes(nodes, Tail(order),
                          CollectChildren(nodes, n, ChildrenOf(nodes, n), self))

CollectCameras(nodes) ==
    CollectNodes(nodes, TraverseFrom(nodes, 1),
                 [cameraObjects |-> <<>>, cameraNodes |-> <<>>])

\* as GetObjectByName, but comparing the names without regard to case
GetObjectByNameAnyCase(nodes, name) ==
    LET hits == SelectSeq(TraverseFrom(nodes, 1),
                          LAMBDA k : ToLowerCase(nodes[k].name) = ToLowerCase(name))
    IN  IF hits = <<>> THEN 0 ELSE hits[1]

\* Object3D.getObjectByName: the first node in traversal order whose name is
\* exactly the given one; 0 stands for undefined
GetObjectByName(nodes, name) ==
    LET hits == SelectSeq(TraverseFrom(nodes, 1), LAMBDA k : nodes[k].name = name)
    IN  IF hits = <<>> THEN 0 ELSE hits[1]

\* model.children.find(child => child.name && child.name.toLowerCase().includes('camera'))
FindCameraChild(nodes) ==
    LET hits == SelectSeq(ChildrenOf(nodes, 1),
                          LAMBDA k : nodes[k].name # <<>>
                                     /\ Includes(ToLowerCase(nodes[k].name), NmLcCamera))
    IN  IF hits = <<>> THEN 0 ELSE hits[1]

\* a || b
OrElse(a, b) == IF a # 0 THEN a ELSE b

\* lines 125-131
NamedCameraNode(nodes) ==
    OrElse(GetObjectByName(nodes, NmCamera),
    OrElse(GetObjectByName(nodes, NmMainCamera),
    OrElse(GetObjectByName(nodes, NmLcCamera),
    OrElse(GetObjectByName(nodes, NmMainCam),
           FindCameraChild(nodes)))))

\* lines 133-135
CameraNodes(nodes) ==
    LET found == CollectCameras(nodes).cameraNodes
        named == NamedCameraNode(nodes)
    IN  IF named # 0 /\ named \notin Range(found) THEN Append(found, named) ELSE found

\* lines 138-152: [cameraToUse, transformNode, hasTransform]; a node is an
\* index of nodes, and as a transformNode 0 is the scene the root was added
\* to at line 93 (the parent of the root).
SelectCamera(nodes) ==
    LET objs == CollectCameras(nodes).cameraObjects
        cn   == CameraNodes(nodes)
    IN  IF Len(objs) > 0
        THEN [cameraToUse |-> objs[1], transformNode |-> nodes[objs[1]].parent,
              hasTransform |-> TRUE]
        ELSE IF Len(cn) > 0
        THEN [cameraToUse |-> IF IsCamera(nodes[cn[1]]) THEN cn[1] ELSE 0,
              transformNode |-> cn[1], hasTransform |-> TRUE]
        ELSE [cameraToUse |-> 0, transformNode |-> 0, hasTransform |-> FALSE]

RECURSIVE OffsetSum(_, _), TurnSum(_, _)
\* the offsets, and the turns, of the nodes from below the root down to n
OffsetSum(nodes, n) ==
    IF n <= 1 THEN Origin
    ELSE LET up == OffsetSum(nodes, nodes[n].parent)
         IN  <<up[1] + nodes[n].off[1], up[2] + nodes[n].off[2], up[3] + nodes[n].off[3]>>
TurnSum(nodes, n) == IF n <= 1 THEN 0 ELSE TurnSum(nodes, nodes[n].parent) + nodes[n].ry

\* Object3D.getWorldPosition of node n of a placed model (the scene is at the origin)
WorldPosition(model, n) ==
    IF n = 0 THEN Origin
    ELSE LET o == OffsetSum(Assets[model.a].nodes, n)
             r == model.root
         IN  <<r.position[1] + r.scale[1] * o[1],
               r.position[2] + r.scale[2] * o[2],
               r.position[3] + r.scale[3] * o[3]>>

\* Object3D.getWorldQuaternion of node n: the turn about Y
WorldQuaternion(model, n) ==
    IF n = 0 THEN 0 ELSE model.root.rotation.v[2] + TurnSum(Assets[model.a].nodes, n)

\* THREE.Quaternion has no method toEuler: the call at line 163 throws a TypeError
QuaternionHasToEuler == FALSE

\* what worldQuat.toEuler(new THREE.Euler()) would hand to rotation.copy
EulerOfQuaternion(q) == [v |-> <<0, q, 0>>, order |-> "XYZ"]

\* camera.updateProjectionMatrix()
UpdateProjectionMatrix(cam) ==
    [cam EXCEPT !.projection = [fov |-> cam.fov, aspect |-> cam.aspect,
                                near |-> cam.near, far |-> cam.far]]

\* fov / aspect / near / far taken from src (lines 167-170, 173-176, 189-192)
CopyIntrinsics(cam, src, win) ==
    [cam EXCEPT !.fov = src.fov, !.aspect = Aspect(win), !.near = src.near, !.far = src.far]

\* Lines 103-196 on the bound camera cam: the camera afterwards, whether the
\* callback threw, whether controlsRef.update() was reached.
DeriveCamera(cam, model, cameras, win) ==
    LET nodes == Assets[model.a].nodes
        sel   == SelectCamera(nodes)
    IN  IF sel.hasTransform
        THEN LET moved == [cam EXCEPT !.position = WorldPosition(model, sel.transformNode)]
             IN  IF ~QuaternionHasToEuler
                 THEN [cam |-> moved, threw |-> TRUE, update |-> FALSE]
                 ELSE LET turned == [moved EXCEPT !.rotation =
                                        EulerOfQuaternion(WorldQuaternion(model, sel.transformNode))]
                          lensed == IF sel.cameraToUse # 0
                                       /\ IsPerspectiveCamera(nodes[sel.cameraToUse])
                                    THEN CopyIntrinsics(turned, nodes[sel.cameraToUse], win)
                                    ELSE IF IsPerspectiveCamera(cameras[1])
                                    THEN CopyIntrinsics(turned, cameras[1], win)
                                    ELSE turned
                      IN  [cam |-> UpdateProjectionMatrix(lensed), threw |-> FALSE,
                           update |-> TRUE]
        ELSE IF IsPerspectiveCamera(cameras[1])
        THEN [cam |-> UpdateProjectionMatrix(CopyIntrinsics(cam, cameras[1], win)),
              threw |-> FALSE, update |-> FALSE]
        ELSE [cam |-> cam, threw |-> FALSE, update |-> FALSE]

-----------------------------------------------------------------------------
(* Promises *)

NoValue == [model |-> 0, cameras |-> <<>>, animations |-> <<>>]
NoError == "none"
NotInitialized == "Scene not initialized"
TypeError == "TypeError"
DecoderErrors == {"NotFound", "Malformed"}

\* resolve(value): settles a pending promise, and is ignored by a settled one
Resolve(p, value) ==
    IF p.status = "pending"
    THEN [p EXCEPT !.status = "resolved", !.value = value]
    ELSE p

\* reject(error)
Reject(p, error) ==
    IF p.status = "pending"
    THEN [p EXCEPT !.status = "rejected", !.error = error]
    ELSE p

\* A loadModel call: its options, whether a scene was bound when it was
\* called, the decoder's request (inflight, then loaded with an asset and a
\* root transform, or failed with a cause), the promise it returned, the
\* placed model once it is attached, and the effects of its callbacks in
\* program order.
NewLoad(options, batch, bound) ==
    [options |-> options, batch |-> batch, calledBound |-> bound,
     dec |-> "inflight", asset |-> 0, cause |-> NoError,
     status |-> "pending", value |-> NoValue, error |-> NoError,
     model |-> NoModel, trace |-> <<>>]

\* as PromiseAll, but waiting for every member and resolving with the values
\* of those that resolved
PromiseAllPartial(b, ls) ==
    IF b.status # "pending" THEN b
    ELSE IF \A k \in 1..Len(b.members) : ls[b.members[k]].status # "pending"
    THEN LET ok == SelectSeq(b.members, LAMBDA m : ls[m].status = "resolved")
         IN  [b EXCEPT !.status = "resolved",
                       !.value = [k \in 1..Len(ok) |-> ls[ok[k]].value]]
    ELSE b

\* Promise.all over the promises of the loads ms, after those loads changed:
\* rejected with the error of a member that rejects, resolved with the
\* members' values in input order once all are resolved
PromiseAll(b, ls) ==
    IF b.status # "pending" THEN b
    ELSE IF \E k \in 1..Len(b.members) : ls[b.members[k]].status = "rejected"
    THEN LET k == CHOOSE k \in 1..Len(b.members) : ls[b.members[k]].status = "rejected"
         IN  [b EXCEPT !.status = "rejected", !.error = ls[b.members[k]].error]
    ELSE IF \A k \in 1..Len(b.members) : ls[b.members[k]].status = "resolved"
    THEN [b EXCEPT !.status = "resolved",
                   !.value = [k \in 1..Len(b.members) |-> ls[b.members[k]].value]]
    ELSE b

NewBatch(members) ==
    [members |-> members, status |-> "pending", value |-> <<>>, error |-> NoError]

\* the reactions of every loadModels promise to the settled loads
SettleBatches(bs, ls) == [k \in 1..Len(bs) |-> PromiseAll(bs[k], ls)]

\* as SceneAdd, but the model becomes the first child
SceneAddFront(ch, s, m) ==
    [t \in Scenes |->
        LET rest == SelectSeq(ch[t], LAMBDA x : x # m)
        IN  IF t = s THEN <<m>> \o rest ELSE rest]

\* as SceneAdd, but the scene keeps the new model only
SceneReplace(ch, s, m) == [t \in Scenes |-> IF t = s THEN <<m>> ELSE ch[t]]

\* Object3D.add: the model leaves the parent it had and is appended
SceneAdd(ch, s, m) ==
    [t \in Scenes |->
        LET rest == SelectSeq(ch[t], LAMBDA x : x # m)
        IN  IF t = s THEN Append(rest, m) ELSE rest]

-----------------------------------------------------------------------------
(* State *)

Windows == {[w |-> 4, h |-> 2], [w |-> 3, h |-> 2]}
MainCamera == "K1"        \* the camera main.js creates and resizes

InitialCamera(k) ==
    LET pos == IF k = "K1" THEN <<0, 2, 5>> ELSE <<7, 7, 7>>
        fov == IF k = "K1" THEN 50 ELSE 75
    IN  [position |-> pos, rotation |-> [v |-> <<0, 0, 0>>, order |-> "XYZ"],
         fov |-> fov, near |-> 1, far |-> 1000, aspect |-> <<2, 1>>,
         projection |-> [fov |-> fov, aspect |-> <<2, 1>>, near |-> 1, far |-> 1000]]

Init ==
    /\ sceneRef = NULL
    /\ cameraRef = NULL
    /\ controlsRef = NULL
    /\ children = [s \in Scenes |-> <<>>]
    /\ cams = [k \in Cams |-> InitialCamera(k)]
    /\ ctlUpdates = [o \in Controls |-> FALSE]
    /\ window = [w |-> 4, h |-> 2]
    /\ loads = <<>>
    /\ batches = <<>>

-----------------------------------------------------------------------------
(* Operations *)

\* setScene(scene)
SetScene(scene) ==
    /\ sceneRef' = scene
    /\ UNCHANGED <<cameraRef, controlsRef, children, cams, ctlUpdates, window, loads, batches>>

\* setCamera(camera, controls)
SetCamera(camera, controls) ==
    /\ cameraRef' = camera
    /\ controlsRef' = controls
    /\ UNCHANGED <<sceneRef, children, cams, ctlUpdates, window, loads, batches>>

\* loadModel(path, options): the promise is created and the decoder started
LoadModel(options) ==
    /\ Len(loads) < MaxLoads
    /\ loads' = Append(loads, NewLoad(options, 0, sceneRef # NULL))
    /\ UNCHANGED <<sceneRef, cameraRef, controlsRef, children, cams, ctlUpdates, window, batches>>

\* loadModels(models): every request's loadModel is called by map, then Promise.all
LoadModels(requests) ==
    /\ Len(requests) > 0
    /\ Len(loads) + Len(requests) <= MaxLoads
    /\ LET b  == Len(batches) + 1
           ls == loads \o [k \in 1..Len(requests) |-> NewLoad(requests[k], b, sceneRef # NULL)]
           ms == [k \in 1..Len(requests) |-> Len(loads) + k]
       IN  /\ loads' = ls
           /\ batches' = Append(batches, PromiseAll(NewBatch(ms), ls))
    /\ UNCHANGED <<sceneRef, cameraRef, controlsRef, children, cams, ctlUpdates, window>>

\* as OnError, but rejecting with an error of the loader's own
OnErrorGeneric(ls, l, error) ==
    [ls EXCEPT ![l] = Reject([@ EXCEPT !.trace = Append(@, "reject")], "LoadFailed")]

\* The error callback (lines 215-218) for load l
OnError(ls, l, error) ==
    [ls EXCEPT ![l] = Reject([@ EXCEPT !.trace = Append(@, "reject")], error)]

\* The decoder fails for load l and calls the error callback
DecodeFail(l, error) ==
    /\ l \in 1..Len(loads)
    /\ loads[l].dec = "inflight"
    /\ LET ls == OnError([loads EXCEPT ![l].dec = "failed", ![l].cause = error], l, error)
       IN  /\ loads' = ls
           /\ batches' = SettleBatches(batches, ls)
    /\ UNCHANGED <<sceneRef, cameraRef, controlsRef, children, cams, ctlUpdates, window>>

\* as SceneMissing, but the check is left out
SceneMissingNever(ref) == FALSE

\* if (!sceneRef)
SceneMissing(ref) == ref = NULL

\* as DerivesCamera, but without looking at options.useCamera
DerivesCameraAlways(options, cameras, camRef) == Len(cameras) > 0 /\ camRef # NULL

\* if (options.useCamera && cameras.length > 0 && cameraRef)
DerivesCamera(options, cameras, camRef) ==
    options.useCamera = "true" /\ Len(cameras) > 0 /\ camRef # NULL

\* The decoder succeeds for load l with asset a, whose root carries the
\* transform root, and calls the success callback (lines 45-208).  An
\* exception thrown by the callback is caught by the decoder, which then
\* calls the error callback with it.
DecodeSuccess(l, a, root) ==
    /\ l \in 1..Len(loads)
    /\ loads[l].dec = "inflight"
    /\ LET options == loads[l].options
           model   == PlaceModel(a, root, options)
           cameras == OrEmpty(Assets[a].cameras)
           placed  == [loads EXCEPT ![l].dec = "loaded", ![l].asset = a]
       IN  IF SceneMissing(sceneRef)
           THEN LET ls == [placed EXCEPT ![l] =
                              Reject([@ EXCEPT !.trace = Append(@, "reject")], NotInitialized)]
                IN  /\ loads' = ls
                    /\ batches' = SettleBatches(batches, ls)
                    /\ UNCHANGED <<children, cams, ctlUpdates>>
           ELSE LET added == [placed EXCEPT ![l].model = model, ![l].trace = Append(@, "add")]
                    derive == DerivesCamera(options, cameras, cameraRef)
                    d == IF derive
                         THEN DeriveCamera(cams[cameraRef], model, cameras, window)
                         ELSE [cam |-> cams[MainCamera], threw |-> FALSE, update |-> FALSE]
                    ls == IF d.threw
                          THEN OnError([added EXCEPT ![l].trace = Append(@, "throw")],
                                       l, TypeError)
                          ELSE [added EXCEPT ![l] =
                                   Resolve([@ EXCEPT !.trace = Append(@, "resolve")],
                                           [model |-> l, cameras |-> cameras,
                                            animations |-> OrEmpty(Assets[a].animations)])]
                IN  /\ children' = SceneAdd(children, sceneRef, l)
                    /\ cams' = IF derive THEN [cams EXCEPT ![cameraRef] = d.cam] ELSE cams
                    /\ ctlUpdates' = IF d.update /\ controlsRef # NULL
                                     THEN [ctlUpdates EXCEPT ![controlsRef] = TRUE]
                                     ELSE ctlUpdates
                    /\ loads' = ls
                    /\ batches' = SettleBatches(batches, ls)
    /\ UNCHANGED <<sceneRef, cameraRef, controlsRef, window>>

\* The resize listener of main.js
Resize(win) ==
    /\ win # window
    /\ window' = win
    /\ cams' = [cams EXCEPT ![MainCamera] =
                   UpdateProjectionMatrix([@ EXCEPT !.aspect = Aspect(win)])]
    /\ UNCHANGED <<sceneRef, cameraRef, controlsRef, children, ctlUpdates, loads, batches>>

-----------------------------------------------------------------------------
(* Specification: the loader driven by any caller *)

MainScenes == {"S1"}
MainBindings == {<<"K1", "O1">>}

MainOptions == {
    DefaultOptions,
    Options(Arr(<<1, 2, 3>>), Num(2), Omitted, "false", "true") }

MainAssets == {2, 4}
MainRoot == RootTransform(Origin, UnitScale, IdentityRotation)

RECURSIVE SeqsUpTo(_, _)
SeqsUpTo(S, n) ==
    IF n = 0 THEN {<<>>}
    ELSE LET shorter == SeqsUpTo(S, n - 1)
         IN  shorter \cup {Append(q, x) : q \in {r \in shorter : Len(r) = n - 1}, x \in S}

Next ==
    \/ \E s \in MainScenes : SetScene(s)
    \/ \E b \in MainBindings : SetCamera(b[1], b[2])
    \/ \E o \in MainOptions : LoadModel(o)
    \/ \E rs \in SeqsUpTo(MainOptions, MaxLoads) : LoadModels(rs)
    \/ \E l \in 1..MaxLoads, e \in DecoderErrors : DecodeFail(l, e)
    \/ \E l \in 1..MaxLoads, a \in MainAssets : DecodeSuccess(l, a, MainRoot)

Spec == Init /\ [][Next]_vars

-----------------------------------------------------------------------------
(* Specification: one loadModel call with any options, completed by the    *)
(* decoder with any asset, while the caller binds cameras and the window   *)
(* is resized.                                                             *)

AllBindings == {<<"K1", "O1">>, <<"K2", NULL>>}
AllAssets == 1..Len(Assets)

InitApply ==
    /\ sceneRef \in {NULL, "S1"}
    /\ cameraRef = NULL
    /\ controlsRef = NULL
    /\ children = [s \in Scenes |-> <<>>]
    /\ cams = [k \in Cams |-> InitialCamera(k)]
    /\ ctlUpdates = [o \in Controls |-> FALSE]
    /\ window = [w |-> 4, h |-> 2]
    /\ \E o \in AllOptions : loads = <<NewLoad(o, 0, sceneRef # NULL)>>
    /\ batches = <<>>

NextApply ==
    \/ \E b \in AllBindings : SetCamera(b[1], b[2])
    \/ \E w \in Windows : Resize(w)
    \/ \E e \in DecoderErrors : DecodeFail(1, e)
    \/ \E a \in AllAssets, root \in DecodedRoots : DecodeSuccess(1, a, root)

SpecApply == InitApply /\ [][NextApply]_vars

-----------------------------------------------------------------------------
(* Specification: loads in flight at once, called after main.js bound the  *)
(* scene (line 9) and the camera with its controls (line 94), completed by *)
(* the decoder in any order.                                               *)

RaceOptions == {
    DefaultOptions,
    Options(Arr(<<0, 0, 0>>), Num(1), Omitted, "omitted", "true"),
    Options(Arr(<<1, 2, 3>>), Num(2), Omitted, "false", "true") }

RaceAssets == {1, 2, 4}

InitRace ==
    /\ sceneRef = "S1"
    /\ cameraRef = MainCamera
    /\ controlsRef = "O1"
    /\ children = [s \in Scenes |-> <<>>]
    /\ cams = [k \in Cams |-> InitialCamera(k)]
    /\ ctlUpdates = [o \in Controls |-> FALSE]
    /\ window = [w |-> 4, h |-> 2]
    /\ loads = <<>>
    /\ batches = <<>>

NextRace ==
    \/ \E o \in RaceOptions : LoadModel(o)
    \/ \E l \in 1..MaxLoads, e \in DecoderErrors : DecodeFail(l, e)
    \/ \E l \in 1..MaxLoads, a \in RaceAssets : DecodeSuccess(l, a, MainRoot)

SpecRace == InitRace /\ [][NextRace]_vars

-----------------------------------------------------------------------------
(* Specification: the caller binds and rebinds scenes and cameras while    *)
(* loads are in flight.                                                    *)

InitBind == Init

NextBind ==
    \/ \E s \in Scenes : SetScene(s)
    \/ \E b \in AllBindings : SetCamera(b[1], b[2])
    \/ \E o \in MainOptions : LoadModel(o)
    \/ \E l \in 1..MaxLoads, e \in DecoderErrors : DecodeFail(l, e)
    \/ \E l \in 1..MaxLoads, a \in MainAssets : DecodeSuccess(l, a, MainRoot)

SpecBind == InitBind /\ [][NextBind]_vars

-----------------------------------------------------------------------------
(* Properties *)

LoadIds == 1..Len(loads)
Attached(l) == \E s \in Scenes : l \in Range(children[s])
Count(q, x) == Cardinality({k \in 1..Len(q) : q[k] = x})
FirstIndex(q, x) == CHOOSE k \in 1..Len(q) : q[k] = x /\ \A j \in 1..(k - 1) : q[j] # x

\* load l's decoder request ends in this step, with a decoded asset
Loaded(l) == loads[l].dec = "inflight" /\ loads'[l].dec = "loaded"
\* load l's decoder request ends in this step, with a failure
Failed(l) == loads[l].dec = "inflight" /\ loads'[l].dec = "failed"

C2_DecodeFailure ==
    /\ [](\A l \in LoadIds :
            loads[l].dec = "failed"
                => /\ loads[l].status = "rejected"
                   /\ loads[l].error = loads[l].cause
                   /\ loads[l].cause \in DecoderErrors
                   /\ ~Attached(l))
    /\ [][\A l \in LoadIds :
            Failed(l) => cams' = cams /\ children' = children]_vars

\* the decoder failed for a load that asked for the camera while a camera
\* was bound, and another load is still in flight
C2_Witness ==
    \E l, m \in LoadIds :
        /\ loads[l].dec = "failed" /\ loads[l].options.useCamera = "true"
        /\ cameraRef # NULL /\ sceneRef # NULL
        /\ loads[m].dec = "inflight"

\* the value loadModel resolves with for asset a and model l
ResultOf(l, a) ==
    [model |-> l, cameras |-> OrEmpty(Assets[a].cameras),
     animations |-> OrEmpty(Assets[a].animations)]

\* C3, as claimed: every load is pending, resolved or rejected and its
\* callbacks settle it at most once; its model is a child of the bound scene
\* exactly if it resolved, once, added before the load resolved; the value
\* carries the model and the asset's cameras and animations, empty when the
\* asset exposes none.
C3_Original ==
    \A l \in LoadIds :
        /\ loads[l].status \in {"pending", "resolved", "rejected"}
        /\ Count(loads[l].trace, "resolve") + Count(loads[l].trace, "reject") <= 1
        /\ (loads[l].status = "pending") = (loads[l].dec = "inflight")
        /\ IF sceneRef = NULL
           THEN loads[l].status # "resolved" /\ ~Attached(l)
           ELSE (l \in Range(children[sceneRef])) = (loads[l].status = "resolved")
        /\ loads[l].status = "resolved"
            => /\ Count(children[sceneRef], l) = 1
               /\ Count(loads[l].trace, "add") = 1
               /\ FirstIndex(loads[l].trace, "add") < FirstIndex(loads[l].trace, "resolve")
               /\ loads[l].value = ResultOf(l, loads[l].asset)

\* the vector an array or a Vector3 / Euler option supplies
Supplied(opt) == IF opt.t = "array" THEN opt.a ELSE <<opt.x, opt.y, opt.z>>

\* C4: the root of a resolved load carries the position, the scale and the
\* rotation angles its options supply, whatever transform it was decoded
\* with; a number s as scale gives (s, s, s), also for s = 0.
C4_Placement ==
    \A l \in LoadIds :
        loads[l].status = "resolved"
            => LET o == loads[l].options
                   r == loads[l].model.root
               IN  /\ o.position.t # "omitted" => r.position = Supplied(o.position)
                   /\ o.scale.t = "number" => r.scale = <<o.scale.n, o.scale.n, o.scale.n>>
                   /\ o.scale.t \in {"array", "vector3"} => r.scale = Supplied(o.scale)
                   /\ o.rotation.t # "omitted" => r.rotation.v = Supplied(o.rotation)
                   /\ o.rotation.t = "euler" => r.rotation.order = o.rotation.order

\* a load resolved with scale 0 and a supplied position and rotation, on a
\* root that was decoded with another transform
C4_Witness ==
    \E l \in LoadIds :
        /\ loads[l].status = "resolved"
        /\ loads[l].options.scale = Num(0)
        /\ loads[l].options.position.t = "array"
        /\ loads[l].options.rotation.t = "euler"
        /\ loads[l].model.decoded.scale # UnitScale
        /\ loads[l].model.root.scale = <<0, 0, 0>>

\* C5, as claimed: on the root of a resolved load an omitted position is the
\* origin, an omitted scale the unit scale and an omitted rotation the
\* identity, whatever transform the root was decoded with.
C5_Original ==
    \A l \in LoadIds :
        loads[l].status = "resolved"
            => LET o == loads[l].options
                   r == loads[l].model.root
               IN  /\ o.position.t = "omitted" => r.position = Origin
                   /\ o.scale.t = "omitted" => r.scale = UnitScale
                   /\ o.rotation.t = "omitted" => r.rotation = IdentityRotation

\* C5, amended: on the root of a resolved load an omitted position, scale or
\* rotation is the one the root was decoded with (the default only when the
\* decoder left the default there).
C5_OmittedKeepsDecoded ==
    \A l \in LoadIds :
        loads[l].status = "resolved"
            => LET o == loads[l].options
                   r == loads[l].model.root
                   d == loads[l].model.decoded
               IN  /\ o.position.t = "omitted" => r.position = d.position
                   /\ o.scale.t = "omitted" => r.scale = d.scale
                   /\ o.rotation.t = "omitted" => r.rotation = d.rotation

\* a load resolved with no placement option on a root decoded away from the
\* defaults
C5_Witness ==
    \E l \in LoadIds :
        /\ loads[l].status = "resolved"
        /\ loads[l].options.position.t = "omitted"
        /\ loads[l].options.scale.t = "omitted"
        /\ loads[l].options.rotation.t = "omitted"
        /\ loads[l].model.decoded.position # Origin
        /\ loads[l].model.root.position # Origin

\* C6: in the hierarchy of a resolved load, with shadows false no node casts
\* or receives shadows; with shadows omitted or true the nodes that cast
\* shadows, and those that receive them, are exactly the meshes.
C6_Shadows ==
    \A l \in LoadIds :
        loads[l].status = "resolved"
            => LET m == loads[l].model
                   nodes == Assets[m.a].nodes
               IN  /\ Len(m.castShadow) = Len(nodes) /\ Len(m.receiveShadow) = Len(nodes)
                   /\ \A k \in 1..Len(nodes) :
                        IF loads[l].options.shadows = "false"
                        THEN ~m.castShadow[k] /\ ~m.receiveShadow[k]
                        ELSE /\ m.castShadow[k] = IsMesh(nodes[k])
                             /\ m.receiveShadow[k] = IsMesh(nodes[k])

\* a load resolved with shadows omitted whose hierarchy has a mesh below a
\* mesh below a group, all meshes marked and no group marked
C6_Witness ==
    \E l \in LoadIds :
        /\ loads[l].status = "resolved"
        /\ loads[l].options.shadows = "omitted"
        /\ loads[l].asset = 1
        /\ loads[l].model.castShadow = <<FALSE, FALSE, TRUE, TRUE>>
        /\ loads[l].model.receiveShadow = <<FALSE, FALSE, TRUE, TRUE>>

\* C7: the completion of a load changes no camera when useCamera is false or
\* omitted, or the asset declares no camera, or no camera is bound; with a
\* scene and no camera bound, the load resolves.
C7_CameraUntouched ==
    [][\A l \in LoadIds :
        Loaded(l)
            => /\ ( \/ loads[l].options.useCamera # "true"
                    \/ Len(OrEmpty(Assets[loads'[l].asset].cameras)) = 0
                    \/ cameraRef = NULL )
                    => cams' = cams /\ ctlUpdates' = ctlUpdates
               /\ (cameraRef = NULL /\ sceneRef # NULL)
                    => loads'[l].status = "resolved"]_vars

\* a load that asked for the camera of an asset declaring one resolved while
\* no camera was bound
C7_Witness ==
    \E l \in LoadIds :
        /\ loads[l].status = "resolved"
        /\ loads[l].options.useCamera = "true"
        /\ Len(OrEmpty(Assets[loads[l].asset].cameras)) > 0
        /\ cameraRef = NULL
        /\ cams = [k \in Cams |-> InitialCamera(k)]

\* asset a declares one camera, and its hierarchy has one camera node, the
\* child of a named node
OneCameraUnderNamedNode(a) ==
    LET nodes == Assets[a].nodes
        cs == {k \in 1..Len(nodes) : IsCamera(nodes[k])}
    IN  /\ Len(OrEmpty(Assets[a].cameras)) = 1
        /\ Cardinality(cs) = 1
        /\ \A k \in cs : nodes[k].parent # 0 /\ nodes[nodes[k].parent].name # <<>>

TheCamera(a) == CHOOSE k \in 1..Len(Assets[a].nodes) : IsCamera(Assets[a].nodes[k])

\* C8, as claimed: when a load with useCamera true completes on such an
\* asset with a scene and a camera bound, the load resolves, the bound camera
\* takes the world position and orientation of the camera's parent node, a
\* perspective camera gives it fov, near and far and the aspect of the
\* window, and otherwise its intrinsics stay as they were.
C8_Original ==
    [][\A l \in LoadIds :
        ( /\ Loaded(l) /\ sceneRef # NULL /\ cameraRef # NULL
          /\ loads[l].options.useCamera = "true"
          /\ OneCameraUnderNamedNode(loads'[l].asset) )
            => LET nodes == Assets[loads'[l].asset].nodes
                   c   == TheCamera(loads'[l].asset)
                   rig == nodes[c].parent
                   m   == loads'[l].model
                   old == cams[cameraRef]
                   new == cams'[cameraRef]
               IN  /\ loads'[l].status = "resolved"
                   /\ new.position = WorldPosition(m, rig)
                   /\ new.rotation = EulerOfQuaternion(WorldQuaternion(m, rig))
                   /\ IF IsPerspectiveCamera(nodes[c])
                      THEN /\ new.fov = nodes[c].fov /\ new.near = nodes[c].near
                           /\ new.far = nodes[c].far /\ new.aspect = Aspect(window)
                      ELSE /\ new.fov = old.fov /\ new.near = old.near
                           /\ new.far = old.far /\ new.aspect = old.aspect]_vars

BatchIds == 1..Len(batches)
Members(b) == Range(batches[b].members)

\* C9: loadModels has called loadModel for every request before any of them
\* completes; its promise is resolved exactly when every request's load is
\* resolved, with the loads' values in the order of the requests; it is
\* rejected as soon as one load is rejected, with that load's error, and a
\* settled promise never changes.
C9_LoadModels ==
    /\ [](\A b \in BatchIds :
            LET ms == batches[b].members
            IN  /\ (batches[b].status = "resolved")
                      = (\A k \in 1..Len(ms) : loads[ms[k]].status = "resolved")
                /\ (batches[b].status = "rejected")
                      = (\E k \in 1..Len(ms) : loads[ms[k]].status = "rejected")
                /\ batches[b].status = "resolved"
                      => /\ Len(batches[b].value) = Len(ms)
                         /\ \A k \in 1..Len(ms) :
                               /\ batches[b].value[k] = loads[ms[k]].value
                               /\ batches[b].value[k].model = ms[k]
                /\ batches[b].status = "rejected"
                      => \E k \in 1..Len(ms) : /\ loads[ms[k]].status = "rejected"
                                               /\ batches[b].error = loads[ms[k]].error)
    /\ [][ /\ \A b \in BatchIds :
                batches[b].status # "pending" => batches'[b] = batches[b]
           /\ Len(batches') > Len(batches)
                => LET ms == batches'[Len(batches')].members
                   IN  /\ Len(ms) = Len(loads') - Len(loads)
                       /\ \A k \in 1..Len(ms) :
                             /\ ms[k] = Len(loads) + k
                             /\ loads'[ms[k]].dec = "inflight"
                             /\ loads'[ms[k]].status = "pending" ]_vars

\* a loadModels call of two requests resolved although the second request
\* completed before the first
C9_Witness ==
    \E b \in BatchIds :
        /\ batches[b].status = "resolved"
        /\ Len(batches[b].members) = 2
        /\ \E s \in Scenes :
              children[s] = <<batches[b].members[2], batches[b].members[1]>>

\* C10: the models of the resolved loads of a rejected loadModels call are
\* attached, and no step removes a model from a scene.
C10_NoRollback ==
    /\ [](\A b \in BatchIds :
            batches[b].status = "rejected"
                => \A m \in Members(b) : loads[m].status = "resolved" => Attached(m))
    /\ [][\A s \in Scenes : \A m \in Range(children[s]) :
            Count(children'[s], m) = Count(children[s], m)]_vars

\* a loadModels call of two requests is rejected by the failure of one
\* while the model of the other, which resolved, is attached
C10_Witness ==
    \E b \in BatchIds :
        /\ batches[b].status = "rejected"
        /\ \E x, y \in Members(b) :
              /\ loads[x].status = "resolved" /\ Attached(x)
              /\ loads[y].status = "rejected" /\ ~Attached(y)

\* load l completes in this step with a decoded asset and runs the camera
\* derivation on the bound camera
Derives(l) ==
    /\ Loaded(l) /\ sceneRef # NULL
    /\ DerivesCamera(loads[l].options, OrEmpty(Assets[loads'[l].asset].cameras), cameraRef)

\* the bound camera has the world position and orientation of node n of model m
PosedAt(cam, m, n) ==
    /\ cam.position = WorldPosition(m, n)
    /\ cam.rotation = EulerOfQuaternion(WorldQuaternion(m, n))

\* the camera has the fov, near and far of src and the aspect of the window
LensOf(cam, src, win) ==
    /\ cam.fov = src.fov /\ cam.near = src.near /\ cam.far = src.far
    /\ cam.aspect = Aspect(win)

\* C11, as claimed: a derivation takes, if a camera object was collected,
\* the pose of the parent of the first one (every camera of a decoded
\* hierarchy has a parent) and the intrinsics of that camera when it is a perspective
\* camera; otherwise the pose of the first candidate node; and with no
\* transform source it keeps position and orientation and takes fov, near,
\* far and aspect from the first declared camera.
C11_Original ==
    [][\A l \in LoadIds :
        Derives(l)
            => LET nodes == Assets[loads'[l].asset].nodes
                   decl  == OrEmpty(Assets[loads'[l].asset].cameras)
                   objs  == CollectCameras(nodes).cameraObjects
                   cand  == CameraNodes(nodes)
                   m     == loads'[l].model
                   old   == cams[cameraRef]
                   new   == cams'[cameraRef]
               IN  IF Len(objs) > 0
                   THEN /\ PosedAt(new, m, nodes[objs[1]].parent)
                        /\ IsPerspectiveCamera(nodes[objs[1]])
                             => LensOf(new, nodes[objs[1]], window)
                   ELSE IF Len(cand) > 0
                   THEN PosedAt(new, m, cand[1])
                   ELSE /\ new.position = old.position /\ new.rotation = old.rotation
                        /\ IsPerspectiveCamera(decl[1]) => LensOf(new, decl[1], window)]_vars

\* the first node, in traversal order, among the nodes ks; 0 if there is none
Earliest(nodes, ks) ==
    LET order == TraverseFrom(nodes, 1)
        hits  == SelectSeq(order, LAMBDA k : k \in ks)
    IN  IF hits = <<>> THEN 0 ELSE hits[1]

\* the node the claim's name lookup finds: a node named Camera, Main Camera
\* or MainCamera in any letter casing
AnyCaseNamed(nodes) ==
    Earliest(nodes, {k \in 1..Len(nodes) :
        ToLowerCase(nodes[k].name) \in
            {ToLowerCase(NmCamera), ToLowerCase(NmMainCamera), ToLowerCase(NmMainCam)}})

\* the node an exact lookup finds: the first name of Camera, Main Camera,
\* camera, MainCamera that some node carries, and the first node carrying it
ExactNamed(nodes) ==
    LET names == <<NmCamera, NmMainCamera, NmLcCamera, NmMainCam>>
        carried == {i \in 1..4 : \E k \in 1..Len(nodes) : nodes[k].name = names[i]}
    IN  IF carried = {} THEN 0
        ELSE LET i == CHOOSE i \in carried : \A j \in carried : i <= j
             IN  Earliest(nodes, {k \in 1..Len(nodes) : nodes[k].name = names[i]})

\* the first direct child of the root whose name contains 'camera' in any casing
CameraChild(nodes) ==
    Earliest(nodes, {k \in 1..Len(nodes) :
        nodes[k].parent = 1 /\ Includes(ToLowerCase(nodes[k].name), NmLcCamera)})

\* a derivation on a hierarchy without camera objects moves the bound
\* camera to the candidate node found by name (named, else child), and
\* leaves its position alone when there is none
MovesToNamed(l, named, child) ==
    LET m   == loads'[l].model
        old == cams[cameraRef]
        new == cams'[cameraRef]
    IN  IF named # 0 THEN new.position = WorldPosition(m, named)
        ELSE IF child # 0 THEN new.position = WorldPosition(m, child)
        ELSE new.position = old.position

NoCameraObject(a) == \A k \in 1..Len(Assets[a].nodes) : ~IsCamera(Assets[a].nodes[k])

\* C12, as claimed: the name lookup of a derivation finds a node named
\* Camera, Main Camera or MainCamera in any letter casing anywhere in the
\* hierarchy and makes it a candidate node; only without such a node is the
\* first child of the root whose name contains 'camera' the candidate.
\* (Stated where the candidate is the transform source: no camera object.)
C12_Original ==
    [][\A l \in LoadIds :
        (Derives(l) /\ NoCameraObject(loads'[l].asset))
            => LET nodes == Assets[loads'[l].asset].nodes
               IN  MovesToNamed(l, AnyCaseNamed(nodes), CameraChild(nodes))]_vars

\* C12, amended: the name lookup finds a node whose name is exactly Camera,
\* Main Camera, camera or MainCamera, tried in this order; only when no node
\* carries one of these four spellings is the first child of the root whose
\* name contains 'camera' in any casing the candidate.
C12_ExactNames ==
    [][\A l \in LoadIds :
        (Derives(l) /\ NoCameraObject(loads'[l].asset))
            => LET nodes == Assets[loads'[l].asset].nodes
               IN  MovesToNamed(l, ExactNamed(nodes), CameraChild(nodes))]_vars

\* a derivation ran on the hierarchy with a node Camera below Rig and a
\* child ShotCamera of the root, and the camera stands at the node Camera;
\* the root was placed away from the origin
C12_Witness ==
    \E l \in LoadIds :
        /\ loads[l].asset = 7 /\ Attached(l)
        /\ loads[l].options.useCamera = "true"
        /\ loads[l].model.root.position # Origin
        /\ cameraRef # NULL
        /\ cams[cameraRef].position = WorldPosition(loads[l].model, 4)
        /\ cams[cameraRef].position # WorldPosition(loads[l].model, 2)

\* whether the completed load l ran the camera derivation, and what the
\* derivation does to a camera cam
Derived(l) ==
    /\ loads[l].dec = "loaded" /\ Attached(l)
    /\ DerivesCamera(loads[l].options, OrEmpty(Assets[loads[l].asset].cameras), cameraRef)
DerivationOf(l, cam) ==
    DeriveCamera(cam, loads[l].model, OrEmpty(Assets[loads[l].asset].cameras), window)

\* the bound camera after the derivations of the loads of order, in this order
RECURSIVE DeriveAll(_, _)
DeriveAll(cam, order) ==
    IF order = <<>> THEN cam
    ELSE LET l == Head(order)
         IN  DeriveAll(IF Derived(l) THEN DerivationOf(l, cam).cam ELSE cam, Tail(order))

\* the result of load l is decided by its own options and the decoder's
\* answer to it
OwnResult(l) ==
    LET p == loads[l]
    IN  /\ p.dec = "inflight" => p.status = "pending"
        /\ p.dec = "failed" => p.status = "rejected" /\ p.error = p.cause
        /\ p.dec = "loaded" =>
              /\ p.model = PlaceModel(p.asset, MainRoot, p.options)
              /\ IF Derived(l) /\ DerivationOf(l, InitialCamera(cameraRef)).threw
                 THEN p.status = "rejected" /\ p.error = TypeError
                 ELSE p.status = "resolved" /\ p.value = ResultOf(l, p.asset)

\* the state outside the scene's children is the one the completed loads
\* leave when their callbacks run in the given order
StateAfter(order) ==
    /\ \A k \in Cams :
          cams[k] = IF k = cameraRef THEN DeriveAll(InitialCamera(k), order)
                    ELSE InitialCamera(k)
    /\ \A o \in Controls :
          ctlUpdates[o] = (o = controlsRef /\ \E l \in LoadIds :
                              Derived(l) /\ DerivationOf(l, InitialCamera(cameraRef)).update)
    /\ sceneRef = "S1" /\ cameraRef = MainCamera /\ controlsRef = "O1"

\* the completed loads in the order of their calls
CallOrder == SelectSeq([k \in 1..Len(loads) |-> k], LAMBDA l : loads[l].dec = "loaded")

C14_Original ==
    [][\A l \in LoadIds :
        (Loaded(l) /\ sceneRef # NULL)
            => /\ loads'[l].status = "resolved"
               /\ children'[sceneRef] = Append(SelectSeq(children[sceneRef],
                                                         LAMBDA x : x # l), l)
               /\ \A t \in Scenes \ {sceneRef} : l \notin Range(children'[t])
               /\ \A k \in Cams : (k # cameraRef \/ ~Derives(l)) => cams'[k] = cams[k]]_vars

====
